---- MODULE Spec2Model ----
(***************************************************************************)
(* Upload coordinator, result renderer and notification display of the     *)
(* application's main script (src/unnamed/part_000).                        *)
(*                                                                         *)
(* Three specifications, one per component:                                *)
(*   Spec        the upload coordinator: submit events and the fetch       *)
(*               promise chains of both forms, in every document layout.   *)
(*               The coordinator only ever appends to the alert area, so   *)
(*               the lifetime of an alert is left to SpecNotify;           *)
(*   SpecNotify  the notification display: showAlert called by any of its  *)
(*               four call sites, the clock, the 5 s timeouts, the close   *)
(*               button;                                                   *)
(*   SpecRender  populateJdResults applied to analysis objects drawn from  *)
(*               a bounded set of JSON values.                             *)
(***************************************************************************)
EXTENDS Integers, Sequences, FiniteSets, TLC

VARIABLES
    doc,            \* which optional elements the document holds
    disabled,       \* form -> submitBtn.disabled
    spinnerHidden,  \* form -> 'd-none' in loadingSpinner.classList
    subs,           \* the promise chains, one per submit event, in submit order
    requests,       \* every fetch() call made so far, in order
    alerts,         \* children of #alerts-container, in document order
    created,        \* number of alert elements showAlert has created
    timers,         \* pending setTimeout callbacks of showAlert
    dismissed,      \* alerts whose close button the user has clicked
    jdResults,      \* the #jd-results element
    location,       \* every value assigned to window.location.href, in order
    analysisIn,     \* SpecRender: the analysis object handed to the renderer
    lastRender      \* SpecRender: how the last populateJdResults call ended

vars == << doc, disabled, spinnerHidden, subs, requests, alerts, created,
           timers, dismissed, jdResults, location, analysisIn, lastRender >>

----------------------------------------------------------------------------
(* Bounds of the model *)

MaxSubmits == 2       \* Spec: submit events per behaviour
MaxAlerts == 3        \* SpecNotify: showAlert calls per behaviour
MaxItems == 2         \* SpecRender: longest array of an analysis field
TickMs == 2500        \* SpecNotify: largest step of the clock, in ms

(* Program constants *)

AutoDismissMs == 5000

----------------------------------------------------------------------------
(* JSON values as JavaScript sees them.  Every value has the same shape so  *)
(* that any two can be compared: t is the type tag, s a string's text, n a  *)
(* number, a an array's elements (strings), p an object's properties in key *)
(* order.                                                                   *)

JsVal(t, s, n, a, p) == [t |-> t, s |-> s, n |-> n, a |-> a, p |-> p]
Undefined == JsVal("undefined", "", 0, <<>>, <<>>)
Null      == JsVal("null", "", 0, <<>>, <<>>)
Str(s)    == JsVal("str", s, 0, <<>>, <<>>)
Num(n)    == JsVal("num", "", n, <<>>, <<>>)
Arr(a)    == JsVal("arr", "", 0, a, <<>>)
Obj(p)    == JsVal("obj", "", 0, <<>>, p)
Prop(k, v) == [k |-> k, v |-> v]

\* ToBoolean, as used by `x || []` and `if (data.redirect)`
Truthy(v) ==
    CASE v.t = "undefined" -> FALSE
      [] v.t = "null"      -> FALSE
      [] v.t = "str"       -> v.s # ""
      [] v.t = "num"       -> v.n # 0
      [] OTHER             -> TRUE

\* v.key throws a TypeError exactly when v is null or undefined
PropThrows(v) == v.t \in {"undefined", "null"}

\* v.key for a value on which property access does not throw
Get(v, key) ==
    IF v.t = "obj" /\ \E i \in 1..Len(v.p) : v.p[i].k = key
    THEN v.p[CHOOSE i \in 1..Len(v.p) : v.p[i].k = key].v
    ELSE Undefined

\* items.length === 0
LengthIsZero(v) ==
    CASE v.t = "arr" -> Len(v.a) = 0
      [] v.t = "str" -> v.s = ""
      [] v.t = "obj" -> Get(v, "length") = Num(0)
      [] OTHER       -> FALSE

\* typeof items.forEach === 'function'
HasForEach(v) == v.t = "arr"

----------------------------------------------------------------------------
(* Result renderer *)

NoItemsText == "No items detected"

\* the <div class="mb-4"> built by createAnalysisSection
SectionEl(title, kind, text, items) ==
    [className |-> "mb-4", heading |-> title, kind |-> kind, text |-> text,
     items |-> items]

\* items.forEach(item => ... list.appendChild(listItem)): one <li> per
\* element, in array order
ListItems(a) == [i \in 1..Len(a) |-> a[i]]

\* createAnalysisSection(title, items): the section, or a TypeError
createAnalysisSection(title, items) ==
    IF LengthIsZero(items)
    THEN [threw |-> FALSE, el |-> SectionEl(title, "p", NoItemsText, <<>>)]
    ELSE IF HasForEach(items)
    THEN [threw |-> FALSE, el |-> SectionEl(title, "ul", "", ListItems(items.a))]
    ELSE [threw |-> TRUE, el |-> SectionEl(title, "ul", "", <<>>)]

\* analysis.<key> || []
OrEmpty(v) == IF Truthy(v) THEN v ELSE Arr(<<>>)

\* the `sections` object literal: key and title of each section, in the
\* order the literal lists them (Object.values keeps that order)
SectionKeys ==
    << [key |-> "skills",           title |-> "Required Skills"],
       [key |-> "experience",       title |-> "Experience Requirements"],
       [key |-> "qualifications",   title |-> "Qualifications"],
       [key |-> "responsibilities", title |-> "Responsibilities"] >>

\* faulty variant: the sections follow the keys of the input (Object.keys(analysis))
BuildSectionInputOrder(analysis, i) ==
    LET key == IF i <= Len(analysis.p) THEN analysis.p[i].k
               ELSE SectionKeys[i].key
        title == (CHOOSE e \in {SectionKeys[j] : j \in 1..Len(SectionKeys)} :
                    e.key = key).title
    IN  createAnalysisSection(title, OrEmpty(Get(analysis, key)))

\* the i-th entry of the `sections` literal
BuildSection(analysis, i) ==
    createAnalysisSection(SectionKeys[i].title,
                          OrEmpty(Get(analysis, SectionKeys[i].key)))

ContainerEl(children, hidden, fadeIn) ==
    [children |-> children, hidden |-> hidden, fadeIn |-> fadeIn]

\* populateJdResults(analysis, container); present = the container is not
\* null.  Gives the container afterwards and how the call ended.
populateJdResults(analysis, container, present) ==
    IF ~present
    THEN [el |-> container, outcome |-> "noop"]
    ELSE IF PropThrows(analysis)
            \/ \E i \in 1..Len(SectionKeys) : BuildSection(analysis, i).threw
    THEN \* innerHTML = '' has run, nothing was appended, classes untouched
         [el |-> ContainerEl(<<>>, container.hidden, container.fadeIn),
          outcome |-> "threw"]
    ELSE [el |-> ContainerEl(
                    [i \in 1..Len(SectionKeys) |-> BuildSection(analysis, i).el],
                    FALSE, TRUE),
          outcome |-> "returned"]

----------------------------------------------------------------------------
(* Notification display *)

\* the element created by showAlert.  id stands for the element's identity
\* (its rank among the elements created); age is the time since its
\* insertion on the observer's clock, in ms.
AlertEl(id, type, message) ==
    [id |-> id, type |-> type, message |-> message, age |-> 0]

\* alert.parentNode is set
InContainer(al, id) == \E k \in 1..Len(al) : al[k].id = id

\* faulty variant: the timeout is set to 10 s
AlertDelayDoubled == 2 * AutoDismissMs

\* the delay handed to setTimeout
AlertDelay == AutoDismissMs

\* showAlert(type, message) on the alert area st = [alerts, created, timers];
\* present = #alerts-container exists
showAlert(st, present, type, message) ==
    IF ~present THEN st
    ELSE [alerts  |-> Append(st.alerts, AlertEl(st.created + 1, type, message)),
          created |-> st.created + 1,
          timers  |-> st.timers \cup
                        {[id |-> st.created + 1, remaining |-> AlertDelay]}]

AlertArea == [alerts |-> alerts, created |-> created, timers |-> timers]

\* bootstrap's Alert.close(): the element leaves the document
bsAlertClose(al, id) == SelectSeq(al, LAMBDA x : x.id # id)

\* the timeout callback: close the alert if it is still in the document
timeoutCallback(al, id) ==
    IF InContainer(al, id) THEN bsAlertClose(al, id) ELSE al

----------------------------------------------------------------------------
(* Upload coordinator *)

Forms == {"jd", "cv"}

Endpoint(f) == IF f = "jd" THEN "/api/job-description" ELSE "/api/resume"
SuccessMsg(f) ==
    IF f = "jd" THEN "Job description uploaded and analyzed successfully!"
    ELSE "Resume uploaded and analyzed successfully!"
FailMsg(f) ==
    IF f = "jd" THEN "Failed to upload job description. Please try again."
    ELSE "Failed to upload resume. Please try again."

\* response.ok
ResponseOk(status) == status >= 200 /\ status <= 299

\* faulty variant: the handler returns early when no file is selected
FetchOnlyWithFile(f, hasFile, i) ==
    IF hasFile
    THEN << [url |-> Endpoint(f), method |-> "POST", hasFile |-> hasFile,
             sub |-> i] >>
    ELSE <<>>

\* fetch(Endpoint(f), {method: 'POST', body: formData}) of chain i
Fetch(f, hasFile, i) ==
    << [url |-> Endpoint(f), method |-> "POST", hasFile |-> hasFile, sub |-> i] >>

\* faulty variant: the cleanup sits in a .then before .catch, so a chain that went
\* through .catch never runs it
AfterCatchNoCleanup == "done"

\* where a chain goes after each handler
AfterFulfilled == "finally"   \* .then(data => ...) returned
AfterRejected == "catch"      \* a rejection or a throw before .catch
AfterCatch == "finally"       \* .catch(error => ...) returned

\* faulty variant: the control is looked up with document.querySelector, which
\* finds the job-description form's control first
SetFlagFirstInDocument(flags, present, f, v) ==
    IF present THEN [flags EXCEPT !["jd"] = v] ELSE flags

\* `if (submitBtn) submitBtn.disabled = v` / the spinner's classList call
SetFlag(flags, present, f, v) ==
    IF present THEN [flags EXCEPT ![f] = v] ELSE flags

\* .finally(() => {...}): the values written to disabled and to 'd-none'
FinallyDisabled == FALSE
FinallyHidden == TRUE

\* a chain right after the submit handler returned.  busyAtSubmit records
\* whether the event arrived while the control was disabled.
NewSub(f, busy) ==
    [form |-> f, pc |-> "pending", status |-> 0, body |-> "none",
     data |-> Undefined, succ |-> FALSE, fail |-> FALSE, rendered |-> FALSE,
     busyAtSubmit |-> busy]

\* the string assigned to window.location.href (the payloads of the model
\* carry string redirects only)
Href(v) == v.s

\* the job-description success handler after showAlert: the #jd-results
\* element afterwards, whether the renderer ran, whether the handler threw
jdSuccess(data, container, present) ==
    IF ~present
    THEN [el |-> container, rendered |-> FALSE, threw |-> FALSE]
    ELSE IF PropThrows(data)
    THEN [el |-> container, rendered |-> FALSE, threw |-> TRUE]
    ELSE IF Truthy(Get(data, "analysis"))
    THEN LET r == populateJdResults(Get(data, "analysis"), container, TRUE)
         IN  [el |-> r.el, rendered |-> TRUE, threw |-> r.outcome = "threw"]
    ELSE [el |-> container, rendered |-> FALSE, threw |-> FALSE]

\* faulty variant: the redirect is assigned without the `if (data.redirect)` test
cvSuccessUnguarded(data, i) ==
    IF PropThrows(data)
    THEN [navs |-> <<>>, threw |-> TRUE]
    ELSE [navs |-> << [sub |-> i, href |-> Href(Get(data, "redirect"))] >>,
          threw |-> FALSE]

\* the resume success handler after showAlert: the assignments made to
\* window.location.href by chain i, whether the handler threw
cvSuccess(data, i) ==
    IF PropThrows(data)
    THEN [navs |-> <<>>, threw |-> TRUE]
    ELSE IF Truthy(Get(data, "redirect"))
    THEN [navs |-> << [sub |-> i, href |-> Href(Get(data, "redirect"))] >>,
          threw |-> FALSE]
    ELSE [navs |-> <<>>, threw |-> FALSE]

----------------------------------------------------------------------------
(* Inputs of the model *)

Statuses == {199, 200, 299, 300}

GoodAnalysis == Obj(<< Prop("skills", Arr(<<"Go", "Rust">>)) >>)
BadAnalysis == Obj(<< Prop("skills", Num(5)) >>)

\* parsed response bodies
Payloads ==
    { Null,
      Obj(<<>>),
      Obj(<< Prop("analysis", GoodAnalysis),
             Prop("redirect", Str("/dashboard")) >>),
      Obj(<< Prop("analysis", BadAnalysis) >>),
      Obj(<< Prop("redirect", Str("")) >>) }

\* documents: a missing form has no controls
Docs ==
    { d \in [form : [Forms -> BOOLEAN], btn : [Forms -> BOOLEAN],
             spinner : [Forms -> BOOLEAN], alerts : BOOLEAN,
             results : BOOLEAN] :
        \A f \in Forms : ~d.form[f] => (~d.btn[f] /\ ~d.spinner[f]) }

\* the document with every optional element in place
FullDoc ==
    [form |-> [f \in Forms |-> TRUE], btn |-> [f \in Forms |-> TRUE],
     spinner |-> [f \in Forms |-> TRUE], alerts |-> TRUE, results |-> TRUE]

----------------------------------------------------------------------------
(* Spec: the upload coordinator *)

\* the page once DOMContentLoaded has run: controls enabled, spinners and
\* the results container hidden, no alert
Idle ==
    /\ disabled = [f \in Forms |-> FALSE]
    /\ spinnerHidden = [f \in Forms |-> TRUE]
    /\ subs = <<>>
    /\ requests = <<>>
    /\ alerts = <<>>
    /\ created = 0
    /\ timers = {}
    /\ dismissed = {}
    /\ jdResults = ContainerEl(<<>>, TRUE, FALSE)
    /\ location = <<>>
    /\ lastRender = "none"

Init == doc \in Docs /\ Idle /\ analysisIn = Undefined

renderVars == << analysisIn, lastRender >>

\* the submit listener of form f, up to and including the fetch call
Submit(f, hasFile) ==
    /\ doc.form[f]
    /\ Len(subs) < MaxSubmits
    /\ disabled' = SetFlag(disabled, doc.btn[f], f, TRUE)
    /\ spinnerHidden' = SetFlag(spinnerHidden, doc.spinner[f], f, FALSE)
    /\ requests' = requests \o Fetch(f, hasFile, Len(subs) + 1)
    /\ subs' = Append(subs, NewSub(f, doc.btn[f] /\ disabled[f]))
    /\ UNCHANGED << doc, alerts, created, timers, dismissed, jdResults,
                    location, renderVars >>

\* fetch rejects: both .then handlers are skipped
NetworkFail(i) ==
    /\ subs[i].pc = "pending"
    /\ subs' = [subs EXCEPT ![i].pc = AfterRejected]
    /\ UNCHANGED << doc, disabled, spinnerHidden, requests, alerts, created,
                    timers, dismissed, jdResults, location, renderVars >>

\* fetch resolves with a response: .then(response => ...)
Respond(i, status) ==
    /\ subs[i].pc = "pending"
    /\ subs' = [subs EXCEPT ![i].status = status,
                            ![i].pc = IF ResponseOk(status) THEN "parsing"
                                      ELSE AfterRejected]
    /\ UNCHANGED << doc, disabled, spinnerHidden, requests, alerts, created,
                    timers, dismissed, jdResults, location, renderVars >>

\* response.json() rejects
ParseFail(i) ==
    /\ subs[i].pc = "parsing"
    /\ subs' = [subs EXCEPT ![i].body = "unparsable", ![i].pc = AfterRejected]
    /\ UNCHANGED << doc, disabled, spinnerHidden, requests, alerts, created,
                    timers, dismissed, jdResults, location, renderVars >>

\* response.json() resolves with data: .then(data => ...)
Parsed(i, data) ==
    LET f == subs[i].form
        area == showAlert(AlertArea, doc.alerts, "success", SuccessMsg(f))
        jd == jdSuccess(data, jdResults, doc.results)
        cv == cvSuccess(data, i)
        threw == IF f = "jd" THEN jd.threw ELSE cv.threw
    IN
    /\ subs[i].pc = "parsing"
    /\ alerts' = area.alerts
    /\ created' = area.created
    /\ timers' = area.timers
    /\ jdResults' = IF f = "jd" THEN jd.el ELSE jdResults
    /\ location' = IF f = "cv" THEN location \o cv.navs ELSE location
    /\ subs' = [subs EXCEPT ![i].body = "json", ![i].data = data,
                            ![i].succ = TRUE,
                            ![i].rendered = (f = "jd" /\ jd.rendered),
                            ![i].pc = IF threw THEN AfterRejected
                                      ELSE AfterFulfilled]
    /\ UNCHANGED << doc, disabled, spinnerHidden, requests, dismissed,
                    renderVars >>

\* .catch(error => ...)
Catch(i) ==
    LET f == subs[i].form
        area == showAlert(AlertArea, doc.alerts, "danger", FailMsg(f))
    IN
    /\ subs[i].pc = "catch"
    /\ alerts' = area.alerts
    /\ created' = area.created
    /\ timers' = area.timers
    /\ subs' = [subs EXCEPT ![i].fail = TRUE, ![i].pc = AfterCatch]
    /\ UNCHANGED << doc, disabled, spinnerHidden, requests, dismissed,
                    jdResults, location, renderVars >>

\* .finally(() => ...)
Finally(i) ==
    LET f == subs[i].form IN
    /\ subs[i].pc = "finally"
    /\ disabled' = SetFlag(disabled, doc.btn[f], f, FinallyDisabled)
    /\ spinnerHidden' = SetFlag(spinnerHidden, doc.spinner[f], f, FinallyHidden)
    /\ subs' = [subs EXCEPT ![i].pc = "done"]
    /\ UNCHANGED << doc, requests, alerts, created, timers, dismissed,
                    jdResults, location, renderVars >>

Next ==
    \/ \E f \in Forms, hasFile \in BOOLEAN : Submit(f, hasFile)
    \/ \E i \in 1..Len(subs) : NetworkFail(i)
    \/ \E i \in 1..Len(subs), status \in Statuses : Respond(i, status)
    \/ \E i \in 1..Len(subs) : ParseFail(i)
    \/ \E i \in 1..Len(subs), data \in Payloads : Parsed(i, data)
    \/ \E i \in 1..Len(subs) : Catch(i)
    \/ \E i \in 1..Len(subs) : Finally(i)

Spec == Init /\ [][Next]_vars

----------------------------------------------------------------------------
(* SpecNotify: the notification display *)

coordVars == << doc, disabled, spinnerHidden, subs, requests, jdResults,
                location, renderVars >>

\* the (type, message) pairs of the four showAlert call sites
AlertCalls ==
    {[type |-> "success", message |-> SuccessMsg(f)] : f \in Forms}
        \cup {[type |-> "danger", message |-> FailMsg(f)] : f \in Forms}

InitNotify ==
    /\ doc \in {[FullDoc EXCEPT !.alerts = b] : b \in BOOLEAN}
    /\ Idle
    /\ analysisIn = Undefined

\* one of the call sites calls showAlert
Notify(c) ==
    LET area == showAlert(AlertArea, doc.alerts, c.type, c.message) IN
    /\ created < MaxAlerts
    /\ alerts' = area.alerts
    /\ created' = area.created
    /\ timers' = area.timers
    /\ UNCHANGED << dismissed, coordVars >>

\* the user clicks the close button of the k-th alert
\* (data-bs-dismiss="alert")
Dismiss(k) ==
    /\ alerts' = bsAlertClose(alerts, alerts[k].id)
    /\ dismissed' = dismissed \cup {alerts[k].id}
    /\ UNCHANGED << created, timers, coordVars >>

\* a timeout set by showAlert expires
TimerFire(t) ==
    /\ t.remaining = 0
    /\ alerts' = timeoutCallback(alerts, t.id)
    /\ timers' = timers \ {t}
    /\ UNCHANGED << created, dismissed, coordVars >>

Min(a, b) == IF a <= b THEN a ELSE b

\* how far the clock may move: not past the next timeout
TickStep ==
    IF timers = {} THEN TickMs
    ELSE Min(TickMs, CHOOSE r \in {t.remaining : t \in timers} :
                        \A t \in timers : r <= t.remaining)

AgeCap == 2 * AutoDismissMs

\* time passes; a timeout that is due runs before the clock moves on
Tick ==
    /\ alerts # <<>> \/ timers # {}
    /\ \A t \in timers : t.remaining > 0
    /\ timers' = {[t EXCEPT !.remaining = @ - TickStep] : t \in timers}
    /\ alerts' = [k \in 1..Len(alerts) |->
                    [alerts[k] EXCEPT !.age = Min(@ + TickStep, AgeCap)]]
    /\ UNCHANGED << created, dismissed, coordVars >>

NextNotify ==
    \/ \E c \in AlertCalls : Notify(c)
    \/ \E k \in 1..Len(alerts) : Dismiss(k)
    \/ \E t \in timers : TimerFire(t)
    \/ Tick

SpecNotify == InitNotify /\ [][NextNotify]_vars

----------------------------------------------------------------------------
(* SpecRender: the result renderer on bounded inputs *)

ItemStrings == {"Go", "Rust"}

\* arrays of at most MaxItems strings
Arrays == UNION {[1..n -> ItemStrings] : n \in 0..MaxItems}

\* values of one field: well-formed arrays, and JSON values that are not
\* arrays
FieldValues ==
    {Arr(a) : a \in Arrays}
        \cup {Null, Str(""), Str("abc"), Num(5), Obj(<<>>)}

\* the properties of an object, from a choice of field values (Undefined:
\* the key is absent), in the order of the keys in ks
PropsOf(ks, val) ==
    LET present == SelectSeq(ks, LAMBDA k : val[k] # Undefined)
    IN  [i \in 1..Len(present) |-> Prop(present[i], val[present[i]])]

KeyOrders ==
    { << "skills", "experience", "qualifications", "responsibilities" >>,
      << "responsibilities", "qualifications", "experience", "skills" >> }

FieldKeys == {"skills", "experience", "qualifications", "responsibilities"}

AnalysisInputs ==
    { Obj(PropsOf(ks, val)) :
        ks \in KeyOrders,
        val \in [FieldKeys -> FieldValues \cup {Undefined}] }

InitRender ==
    /\ doc \in {[FullDoc EXCEPT !.results = b] : b \in BOOLEAN}
    /\ Idle
    /\ analysisIn \in AnalysisInputs

\* populateJdResults(analysisIn, document.getElementById('jd-results'))
Render ==
    LET r == populateJdResults(analysisIn, jdResults, doc.results) IN
    /\ lastRender = "none"
    /\ jdResults' = r.el
    /\ lastRender' = r.outcome
    /\ UNCHANGED << doc, disabled, spinnerHidden, subs, requests, alerts,
                    created, timers, dismissed, location, analysisIn >>

NextRender == Render

SpecRender == InitRender /\ [][NextRender]_vars

----------------------------------------------------------------------------
(* Properties of the upload coordinator (checked under Spec) *)

ChainIds == 1..Len(subs)

\* some chain of form f has not run its .finally handler yet
InFlight(f) == \E i \in ChainIds : subs[i].form = f /\ subs[i].pc # "done"

\* the control of f is enabled and its spinner hidden
IdleControls(f) == disabled[f] = FALSE /\ spinnerHidden[f] = TRUE

\* the hrefs chain i has assigned to window.location.href, in order
NavsOf(i) ==
    LET mine == SelectSeq(location, LAMBDA n : n.sub = i)
    IN  [k \in 1..Len(mine) |-> mine[k].href]

\* the value of key in a parsed body, read off the body's property list
Field(data, key) ==
    IF data.t = "obj" /\ \E j \in 1..Len(data.p) : data.p[j].k = key
    THEN {data.p[j].v : j \in {j \in 1..Len(data.p) : data.p[j].k = key}}
    ELSE {}

\* C1: for both forms, when a chain finishes (its last handler has run) the
\* submit control's disabled flag is false and the spinner is hidden,
\* whichever way the chain went (non-2xx, network failure, unparsable body,
\* throwing success handler); a settled chain is never stuck before its
\* cleanup; and with no chain of a form left, its controls are idle.
C1_BusyClearedOnEveryPath ==
    /\ [](\A i \in ChainIds :
            /\ subs[i].pc \in {"pending", "parsing", "catch", "finally", "done"}
            /\ subs[i].pc = "catch" => ENABLED Catch(i)
            /\ subs[i].pc = "finally" => ENABLED Finally(i))
    /\ [](\A f \in Forms : ~InFlight(f) => IdleControls(f))
    /\ [][\A i \in ChainIds :
            (subs[i].pc # "done" /\ subs'[i].pc = "done")
                => (disabled'[subs[i].form] = FALSE
                    /\ spinnerHidden'[subs[i].form] = TRUE)]_vars

\* C1 witness: a chain whose success handler threw has finished, in a
\* document that has the controls, and the controls are idle again
C1_Witness ==
    \E i \in ChainIds :
        /\ subs[i].pc = "done" /\ subs[i].succ /\ subs[i].fail
        /\ doc.btn[subs[i].form] /\ doc.spinner[subs[i].form]
        /\ IdleControls(subs[i].form)
        /\ \E j \in ChainIds : subs[j].pc = "done" /\ subs[j].body = "unparsable"

\* C2: for every chain that got a response: a status in [200,300) leads to
\* the success branch and not the failure branch, any other status to the
\* failure branch and not the success branch; never both, never neither.
\* (Stated for documents with an alert area, where reaching a branch shows
\* its notification.)
C2_ExactlyOneBranch ==
    \A i \in ChainIds :
        /\ doc.alerts => ~(subs[i].succ /\ subs[i].fail)
        /\ (doc.alerts /\ subs[i].pc = "done" /\ subs[i].status # 0) =>
              IF subs[i].status >= 200 /\ subs[i].status < 300
              THEN subs[i].succ /\ ~subs[i].fail
              ELSE subs[i].fail /\ ~subs[i].succ

\* C5: a chain that showed the failure notification has no success-path
\* effect: no success notification, no write to the results container, no
\* navigation.
C5_NoPartialSuccess ==
    \A i \in ChainIds :
        (doc.alerts /\ subs[i].fail) =>
            /\ ~subs[i].succ
            /\ ~subs[i].rendered
            /\ NavsOf(i) = <<>>

\* C6: every submit event has exactly one request, a POST to the endpoint of
\* its form, with or without a file; no other request is ever made.
C6_OneRequestPerSubmit ==
    /\ Len(requests) = Len(subs)
    /\ \A i \in ChainIds :
        /\ Cardinality({k \in 1..Len(requests) : requests[k].sub = i}) = 1
        /\ requests[i].sub = i
        /\ requests[i].method = "POST"
        /\ requests[i].url = IF subs[i].form = "jd" THEN "/api/job-description"
                             ELSE "/api/resume"

\* C6 witness: a submit without a file has failed and finished, and its
\* request is the only one
C6_Witness ==
    /\ Len(subs) = 1 /\ subs[1].pc = "done" /\ subs[1].fail
    /\ Len(requests) = 1 /\ ~requests[1].hasFile
    /\ requests[1].url = "/api/resume"

\* the alerts in the area with this type and message
AlertCount(type, message) ==
    Cardinality({k \in 1..Len(alerts) :
                    alerts[k].type = type /\ alerts[k].message = message})

\* C7: a resume chain whose body parsed has called showAlert('success') (the
\* alert is in the area when the document has one); it has assigned
\* location.href exactly once, to the redirect target, when the payload has
\* a non-empty one, and never otherwise; it has not rendered into
\* #jd-results, which keeps its initial state while no job-description
\* chain has rendered.
C7_ResumeSuccess ==
    /\ \A i \in ChainIds :
        (subs[i].form = "cv" /\ subs[i].body = "json") =>
            /\ subs[i].succ
            /\ ~subs[i].rendered
            /\ LET r == Field(subs[i].data, "redirect")
               IN  IF \E v \in r : v.t = "str" /\ v.s # ""
                   THEN \E v \in r : NavsOf(i) = << v.s >>
                   ELSE NavsOf(i) = <<>>
    /\ doc.alerts =>
          AlertCount("success", "Resume uploaded and analyzed successfully!")
            = Cardinality({i \in ChainIds :
                             subs[i].form = "cv" /\ subs[i].body = "json"})
    /\ (\A j \in ChainIds : ~subs[j].rendered) =>
          jdResults = ContainerEl(<<>>, TRUE, FALSE)

\* C7 witness: a resume chain with redirect "/dashboard" and one without a
\* redirect have both finished; the only navigation is the first chain's
C7_Witness ==
    /\ Len(subs) = 2
    /\ \A i \in ChainIds : subs[i].form = "cv" /\ subs[i].pc = "done"
    /\ Field(subs[1].data, "redirect") = {Str("/dashboard")}
    /\ subs[2].data = Obj(<<>>) /\ subs[2].body = "json"
    /\ location = << [sub |-> 1, href |-> "/dashboard"] >>
    /\ doc.alerts /\ Len(alerts) = 2

\* C8: a job-description chain whose body parsed has called
\* showAlert('success'); the renderer ran iff the payload has an analysis
\* object and #jd-results exists; when either is missing the chain does not
\* reach the failure notification.
C8_JdSuccess ==
    \A i \in ChainIds :
        (subs[i].form = "jd" /\ subs[i].body = "json") =>
            LET hasAnalysis == \E v \in Field(subs[i].data, "analysis") :
                                   v.t = "obj"
            IN  /\ subs[i].succ
                /\ subs[i].rendered <=> (hasAnalysis /\ doc.results)
                /\ (doc.alerts /\ ~(hasAnalysis /\ doc.results))
                      => ~subs[i].fail

\* the submit events of form f all arrived while its control was enabled
OnlyWhileEnabled(f) ==
    \A i \in ChainIds : subs[i].form = f => ~subs[i].busyAtSubmit

\* C10: for a form with a submit control whose submit events all arrived
\* while the control was enabled: at most one chain is in flight, the control
\* is disabled exactly while one is, and the spinner (if any) is shown
\* exactly while one is; and no step of a chain of one form changes the
\* busy state of the other form.
C10_BusyWhileInFlight ==
    /\ [](\A f \in Forms :
            (doc.btn[f] /\ OnlyWhileEnabled(f)) =>
                /\ Cardinality({i \in ChainIds :
                       subs[i].form = f /\ subs[i].pc # "done"}) <= 1
                /\ disabled[f] <=> InFlight(f)
                /\ doc.spinner[f] => (~spinnerHidden[f] <=> InFlight(f)))
    /\ [][\A f \in Forms :
            (disabled'[f] # disabled[f] \/ spinnerHidden'[f] # spinnerHidden[f])
                => \/ /\ Len(subs') = Len(subs) + 1
                      /\ subs'[Len(subs')].form = f
                   \/ \E i \in ChainIds :
                         subs[i].form = f /\ subs'[i] # subs[i]]_vars

\* C10 witness: the job-description chain has finished and the resume chain
\* is in flight: only the resume form is busy
C10_Witness ==
    /\ doc = FullDoc
    /\ Len(subs) = 2
    /\ subs[1].form = "jd" /\ subs[1].pc = "done"
    /\ subs[2].form = "cv" /\ subs[2].pc = "parsing"
    /\ ~disabled["jd"] /\ spinnerHidden["jd"]
    /\ disabled["cv"] /\ ~spinnerHidden["cv"]

----------------------------------------------------------------------------
(* Properties of the result renderer (checked under SpecRender) *)

\* the renderer has been called on a container that exists
Rendered == lastRender # "none" /\ doc.results

Titles ==
    << "Required Skills", "Experience Requirements", "Qualifications",
       "Responsibilities" >>

InputKeys ==
    << "skills", "experience", "qualifications", "responsibilities" >>

\* section k of the container shows the placeholder and no list
ShowsPlaceholder(k) ==
    /\ jdResults.children[k].kind = "p"
    /\ jdResults.children[k].text = "No items detected"
    /\ jdResults.children[k].items = <<>>

\* section k of the container is a list of exactly these items, in order
ShowsList(k, items) ==
    /\ jdResults.children[k].kind = "ul"
    /\ jdResults.children[k].items = items

\* the container holds the four sections, titled in the fixed order
FourSections ==
    /\ Len(jdResults.children) = 4
    /\ \A k \in 1..4 : jdResults.children[k].heading = Titles[k]

\* C3: populateJdResults never throws; a field that is absent or is not an
\* array of strings is rendered as empty: its section shows the placeholder,
\* and all four sections are there.
C3_NeverThrows ==
    Rendered =>
        /\ lastRender = "returned"
        /\ FourSections
        /\ \A k \in 1..4 :
              (\A v \in Field(analysisIn, InputKeys[k]) : v.t # "arr")
                  => ShowsPlaceholder(k)

\* every field the input has is an array of strings
WellFormed(analysis) ==
    \A j \in 1..Len(analysis.p) : analysis.p[j].v.t = "arr"

\* C4: for an analysis object whose fields are arrays of strings, the
\* container holds exactly the four sections in the fixed order whatever the
\* key order of the input; a section with a non-empty array lists exactly
\* its items in input order, a section whose array is empty or absent shows
\* the placeholder.
C4_FourSectionsInOrder ==
    (Rendered /\ WellFormed(analysisIn)) =>
        /\ lastRender = "returned"
        /\ FourSections
        /\ \A k \in 1..4 :
              LET f == Field(analysisIn, InputKeys[k])
              IN  IF \E v \in f : v.a # <<>>
                  THEN \E v \in f : ShowsList(k, v.a)
                  ELSE ShowsPlaceholder(k)

\* C4 witness: the input lists responsibilities before skills; the container
\* shows Go, Rust under Required Skills, placeholders in the middle, and
\* Rust, Go under Responsibilities
C4_Witness ==
    /\ analysisIn = Obj(<< Prop("responsibilities", Arr(<<"Rust", "Go">>)),
                           Prop("experience", Arr(<<>>)),
                           Prop("skills", Arr(<<"Go", "Rust">>)) >>)
    /\ lastRender = "returned"
    /\ FourSections
    /\ ShowsList(1, <<"Go", "Rust">>)
    /\ ShowsPlaceholder(2) /\ ShowsPlaceholder(3)
    /\ ShowsList(4, <<"Rust", "Go">>)
    /\ ~jdResults.hidden /\ jdResults.fadeIn

----------------------------------------------------------------------------
(* Properties of the notification display (checked under SpecNotify) *)

AlertIds == {alerts[k].id : k \in 1..Len(alerts)}

\* al without its k-th element
Without(al, k) == SubSeq(al, 1, k - 1) \o SubSeq(al, k + 1, Len(al))

\* C9: an alert is never in the area more than 5 s after its insertion, and
\* one that has reached 5 s has its timeout due (it runs before the clock
\* moves on); a dismissed alert is not in the area; a timeout that expires
\* after its alert was dismissed leaves the area as it is; a step that
\* removes an alert removes that one only and leaves the others in place.
C9_AutoDismiss ==
    /\ [](\A k \in 1..Len(alerts) :
            /\ alerts[k].age <= 5000
            /\ alerts[k].age = 5000 =>
                  [id |-> alerts[k].id, remaining |-> 0] \in timers)
    /\ [](\A id \in dismissed : id \notin AlertIds)
    /\ [][\A t \in timers :
            ((\A u \in timers' : u.id # t.id) /\ t.id \in dismissed)
                => alerts' = alerts]_vars
    /\ [][Len(alerts') < Len(alerts) =>
            \E k \in 1..Len(alerts) : alerts' = Without(alerts, k)]_vars

\* C9 witness: of three alerts, the first was dismissed and its timeout has
\* expired since, the second was removed by its timeout, the third is still
\* shown, 2.5 s old
C9_Witness ==
    /\ created = 3
    /\ dismissed = {1}
    /\ AlertIds = {3}
    /\ timers = {[id |-> 3, remaining |-> 2500]}
    /\ alerts[1].age = 2500

====
